---------------------------- MODULE Spec2Model ----------------------------
(***************************************************************************)
(* A model of bot.py, the tennis predictor bot: validate_input, predict,   *)
(* the /Result command and the text-message handler.                       *)
(*                                                                         *)
(* predict computes with Python floats (IEEE-754 binary64).  The model     *)
(* keeps that arithmetic exact: a float is a sign, a 53-bit mantissa held  *)
(* as a sequence of 15-bit limbs, and a binary exponent, and every         *)
(* operation rounds to nearest, ties to even, as the hardware does.        *)
(***************************************************************************)
EXTENDS Integers, Sequences, FiniteSets, TLC

-----------------------------------------------------------------------------
(* Every operator below names each intermediate value once, with Let, and  *)
(* is applied to names or to small integer expressions: a value is then    *)
(* computed once however often it is used.                                 *)

\* F applied to the value of x
Let(x, F(_)) == CHOOSE r \in {F(v) : v \in {x}} : TRUE

\* F applied to the values of x and y
Let2(x, y, F(_, _)) == CHOOSE r \in {F(v, w) : v \in {x}, w \in {y}} : TRUE

Max2(a, b) == IF a >= b THEN a ELSE b

Min2(a, b) == IF a <= b THEN a ELSE b

Abs(i) == IF i < 0 THEN -i ELSE i

SignOf(i) == IF i < 0 THEN 1 ELSE 0

-----------------------------------------------------------------------------
(* Natural numbers of any size: little-endian sequences of limbs below     *)
(* Base, with no zero limb at the top; <<>> is zero.                       *)

Base == 2^15

Limb(x, i) == IF i <= Len(x) THEN x[i] ELSE 0

\* the index of the highest limb of x that is not zero, from i down
RECURSIVE TopLimb(_, _)
TopLimb(x, i) == IF i = 0 THEN 0 ELSE IF x[i] # 0 THEN i ELSE TopLimb(x, i - 1)

BTrim(x) == SubSeq(x, 1, TopLimb(x, Len(x)))

RECURSIVE BFromNat(_)
BFromNat(n) == IF n = 0 THEN <<>> ELSE <<n % Base>> \o BFromNat(n \div Base)

RECURSIVE BToNatFrom(_, _)
BToNatFrom(x, i) == IF i > Len(x) THEN 0 ELSE x[i] + Base * BToNatFrom(x, i + 1)

\* for x small enough to be an integer of the model
BToNat(x) == BToNatFrom(x, 1)

RECURSIVE BCmpFrom(_, _, _)
BCmpFrom(x, y, i) ==
    IF i = 0 THEN 0
    ELSE IF Limb(x, i) < Limb(y, i) THEN -1
    ELSE IF Limb(x, i) > Limb(y, i) THEN 1
    ELSE BCmpFrom(x, y, i - 1)

\* -1, 0, 1 as x is below, at or above y
BCmp(x, y) == BCmpFrom(x, y, Max2(Len(x), Len(y)))

RECURSIVE BAddFrom(_, _, _, _)
BAddFrom(x, y, i, c) ==
    IF i > Max2(Len(x), Len(y))
    THEN (IF c = 0 THEN <<>> ELSE <<c>>)
    ELSE <<(Limb(x, i) + Limb(y, i) + c) % Base>>
         \o BAddFrom(x, y, i + 1, (Limb(x, i) + Limb(y, i) + c) \div Base)

BAdd(x, y) == BAddFrom(x, y, 1, 0)

RECURSIVE BSubFrom(_, _, _, _)
BSubFrom(x, y, i, c) ==
    IF i > Len(x) THEN <<>>
    ELSE IF x[i] - Limb(y, i) - c < 0
    THEN <<x[i] - Limb(y, i) - c + Base>> \o BSubFrom(x, y, i + 1, 1)
    ELSE <<x[i] - Limb(y, i) - c>> \o BSubFrom(x, y, i + 1, 0)

\* x - y for x >= y
BSub(x, y) == Let(BSubFrom(x, y, 1, 0), BTrim)

RECURSIVE BMulSmallFrom(_, _, _, _)
BMulSmallFrom(x, k, i, c) ==
    IF i > Len(x)
    THEN (IF c = 0 THEN <<>> ELSE <<c>>)
    ELSE <<(x[i] * k + c) % Base>> \o BMulSmallFrom(x, k, i + 1, (x[i] * k + c) \div Base)

\* x * k + c for k, c < Base
BMulSmall(x, k, c) == Let(BMulSmallFrom(x, k, 1, c), BTrim)

\* x * Base
BUp(x) == IF x = <<>> THEN <<>> ELSE <<0>> \o x

\* x times the limbs of y from the i-th up
RECURSIVE BMulFrom(_, _, _)
BMulFrom(x, y, i) ==
    IF i > Len(y) THEN <<>>
    ELSE Let(BMulSmall(x, y[i], 0), LAMBDA low :
         Let(Let(BMulFrom(x, y, i + 1), BUp), LAMBDA high :
         BAdd(low, high)))

BMul(x, y) == BMulFrom(x, y, 1)

\* x * 2^k
BShl(x, k) ==
    IF x = <<>> THEN <<>>
    ELSE [i \in 1..(k \div 15) |-> 0] \o BMulSmall(x, 2^(k % 15), 0)

\* the limbs of x from the i-th down divided by d, with r carried in from
\* above and q the quotient limbs found so far
RECURSIVE BDivSmallFrom(_, _, _, _, _)
BDivSmallFrom(x, d, i, r, q) ==
    IF i = 0 THEN [q |-> q, r |-> r]
    ELSE BDivSmallFrom(x, d, i - 1, (r * Base + x[i]) % d,
                       <<(r * Base + x[i]) \div d>> \o q)

\* quotient and remainder of x by d, for 0 < d <= Base
BDivSmall(x, d) ==
    Let(BDivSmallFrom(x, d, Len(x), 0, <<>>), LAMBDA qr :
        [q |-> BTrim(qr.q), r |-> BFromNat(qr.r)])

\* floor(x / 2^k)
BShr(x, k) ==
    IF k \div 15 >= Len(x) THEN <<>>
    ELSE Let(SubSeq(x, (k \div 15) + 1, Len(x)), LAMBDA high :
             BDivSmall(high, 2^(k % 15)).q)

\* the number of bits of n, at least k
RECURSIVE NatBits(_, _)
NatBits(n, k) == IF n < 2^k THEN k ELSE NatBits(n, k + 1)

BBitLen(x) == IF x = <<>> THEN 0 ELSE 15 * (Len(x) - 1) + NatBits(x[Len(x)], 0)

BBit(x, i) == (Limb(x, (i \div 15) + 1) \div 2^(i % 15)) % 2

BOdd(x) == x # <<>> /\ x[1] % 2 = 1

\* one step of binary long division: bit i - 1 of n is brought down to the
\* remainder qr.r and the next bit of the quotient is appended to qr.q
LongDivStep(n, d, i, qr) ==
    Let(BMulSmall(qr.r, 2, BBit(n, i - 1)), LAMBDA r2 :
    Let(BCmp(r2, d) >= 0, LAMBDA ge :
        [q |-> BMulSmall(qr.q, 2, IF ge THEN 1 ELSE 0),
         r |-> IF ge THEN BSub(r2, d) ELSE r2]))

\* k steps of binary long division, from bit i - 1 of n down
RECURSIVE LongDivSteps(_, _, _, _, _)
LongDivSteps(n, d, i, k, qr) ==
    IF k = 0 THEN qr
    ELSE Let(LongDivStep(n, d, i, qr), LAMBDA next :
             LongDivSteps(n, d, i - 1, k - 1, next))

\* binary long division, a limb's worth of bits at a time: the bits of n
\* below position i are still to bring down; qr holds the quotient and
\* remainder of the bits above
RECURSIVE BLongDiv(_, _, _, _)
BLongDiv(n, d, i, qr) ==
    IF i = 0 THEN qr
    ELSE Let(LongDivSteps(n, d, i, Min2(i, 15), qr), LAMBDA next :
             BLongDiv(n, d, i - Min2(i, 15), next))

\* quotient and remainder of n by d > 0
BDivMod(n, d) ==
    IF Len(d) = 1 THEN BDivSmall(n, d[1])
    ELSE IF BCmp(n, d) < 0 THEN [q |-> <<>>, r |-> n]
    ELSE Let(BBitLen(n) - BBitLen(d) + 1, LAMBDA low :
         Let([q |-> <<>>, r |-> BShr(n, low)], LAMBDA top :
         BLongDiv(n, d, low, top)))

-----------------------------------------------------------------------------
(* Python floats.  A float is [s, m, e] with value (-1)^s * m * 2^e, where *)
(* m is <<>> (zero) or has exactly MantBits bits.  The values predict      *)
(* meets in the model are far from the overflow and subnormal ranges.      *)

\* a binary64 mantissa: the implicit leading bit and 52 stored bits
MantBits == 1 + 52

FZero == [s |-> 0, m |-> <<>>, e |-> 0]

IsZero(x) == x.m = <<>>

\* the mantissa q1 at exponent e, renormalised when it has a bit too many
FNormal(s, q1, e) ==
    IF BBitLen(q1) > MantBits
    THEN [s |-> s, m |-> BShr(q1, 1), e |-> e + 1]
    ELSE [s |-> s, m |-> q1, e |-> e]

\* q * 2^e, with one unit in the last place more when up
FPack(s, q, e, up) ==
    Let(IF up THEN BAdd(q, <<1>>) ELSE q, LAMBDA q1 : FNormal(s, q1, e))

\* round to nearest, ties to even: c compares the discarded part with one half
RoundUp(q, c) == c > 0 \/ (c = 0 /\ BOdd(q))

\* the float nearest to (-1)^s * n * 2^e
RoundDyadic(s, n, e) ==
    IF n = <<>> THEN FZero
    ELSE Let(BBitLen(n), LAMBDA len :
         IF len <= MantBits
         THEN [s |-> s, m |-> BShl(n, MantBits - len), e |-> e - (MantBits - len)]
         ELSE Let(BShr(n, len - MantBits), LAMBDA q :
              Let(BShl(q, len - MantBits), LAMBDA floor :
              Let(BSub(n, floor), LAMBDA rem :
              Let(BShl(<<1>>, len - MantBits - 1), LAMBDA half :
              FPack(s, q, e + len - MantBits, RoundUp(q, BCmp(rem, half))))))))

\* whether n/d, known to lie in (2^(k-1), 2^(k+1)), is at least 2^k
AtLeastPower(n, d, k) ==
    IF k >= 0 THEN Let(BShl(d, k), LAMBDA dk : BCmp(n, dk) >= 0)
    ELSE Let(BShl(n, -k), LAMBDA nk : BCmp(nk, d) >= 0)

\* the float nearest to (-1)^s * (nn / dd) * 2^e, for a quotient of MantBits bits
RoundQuotient(s, nn, dd, e) ==
    Let(BDivMod(nn, dd), LAMBDA qr :
    Let(BShl(qr.r, 1), LAMBDA twice :
    FPack(s, qr.q, e, RoundUp(qr.q, BCmp(twice, dd)))))

\* the float nearest to (-1)^s * (n / d) * 2^e, for d > 0
RoundRatio(s, n, d, e) ==
    IF n = <<>> THEN FZero
    ELSE Let(BBitLen(n) - BBitLen(d), LAMBDA k :
         Let(IF AtLeastPower(n, d, k) THEN k - (MantBits - 1) ELSE k - MantBits,
             LAMBDA sh :
         Let(IF sh < 0 THEN BShl(n, -sh) ELSE n, LAMBDA nn :
         Let(IF sh > 0 THEN BShl(d, sh) ELSE d, LAMBDA dd :
         RoundQuotient(s, nn, dd, e + sh)))))

\* the float equal to the integer i
FromInt(i) == Let(BFromNat(Abs(i)), LAMBDA n : RoundDyadic(SignOf(i), n, 0))

\* the float nearest to the quotient of the integers i and j
Quotient(i, j) ==
    Let(BFromNat(Abs(i)), LAMBDA n :
    Let(BFromNat(Abs(j)), LAMBDA d :
    RoundRatio((SignOf(i) + SignOf(j)) % 2, n, d, 0)))

\* i / j for Python ints: the float nearest to the quotient
IntTrueDiv(i, j) == Let2(i, j, Quotient)

Negate(x) == IF IsZero(x) THEN x ELSE [x EXCEPT !.s = 1 - x.s]

\* -x
FNeg(x) == Let(x, Negate)

\* -1, 0, 1 as |x| is below, at or above |y|
FCmpAbs(x, y) ==
    IF IsZero(x) \/ IsZero(y)
    THEN (IF IsZero(x) /\ IsZero(y) THEN 0 ELSE IF IsZero(x) THEN -1 ELSE 1)
    ELSE IF x.e # y.e THEN (IF x.e < y.e THEN -1 ELSE 1)
    ELSE BCmp(x.m, y.m)

\* -1, 0, 1 as the float x is below, at or above the float y
Compare(x, y) ==
    IF IsZero(x) /\ IsZero(y) THEN 0
    ELSE IF IsZero(x) THEN (IF y.s = 1 THEN 1 ELSE -1)
    ELSE IF IsZero(y) THEN (IF x.s = 1 THEN -1 ELSE 1)
    ELSE IF x.s # y.s THEN (IF x.s = 1 THEN -1 ELSE 1)
    ELSE IF x.s = 0 THEN FCmpAbs(x, y) ELSE FCmpAbs(y, x)

FCmp(x, y) == Let2(x, y, Compare)

\* the float nearest to sx * xm * 2^e + sy * ym * 2^e
AddAligned(sx, xm, sy, ym, e) ==
    IF sx = sy THEN Let(BAdd(xm, ym), LAMBDA n : RoundDyadic(sx, n, e))
    ELSE IF BCmp(xm, ym) = 0 THEN FZero
    ELSE IF BCmp(xm, ym) > 0 THEN Let(BSub(xm, ym), LAMBDA n : RoundDyadic(sx, n, e))
    ELSE Let(BSub(ym, xm), LAMBDA n : RoundDyadic(sy, n, e))

Add(x, y) ==
    IF IsZero(x) THEN y
    ELSE IF IsZero(y) THEN x
    ELSE Let(BShl(x.m, x.e - Min2(x.e, y.e)), LAMBDA xm :
         Let(BShl(y.m, y.e - Min2(x.e, y.e)), LAMBDA ym :
         AddAligned(x.s, xm, y.s, ym, Min2(x.e, y.e))))

\* x + y
FAdd(x, y) == Let2(x, y, Add)

\* x - y
FSub(x, y) == Let2(x, FNeg(y), Add)

Multiply(x, y) ==
    IF IsZero(x) \/ IsZero(y) THEN FZero
    ELSE Let(BMul(x.m, y.m), LAMBDA n : RoundDyadic((x.s + y.s) % 2, n, x.e + y.e))

\* x * y
FMul(x, y) == Let2(x, y, Multiply)

\* the position of the lowest bit of m that is set, from i up
RECURSIVE LowBit(_, _)
LowBit(m, i) == IF BBit(m, i) = 1 THEN i ELSE LowBit(m, i + 1)

\* m * 2^e with the zero bits at the low end of m moved into e
OddPart(m, e) ==
    Let(LowBit(m, 0), LAMBDA low : [m |-> BShr(m, low), e |-> e + low])

Divide(x, y) ==
    IF IsZero(x) THEN FZero
    ELSE Let(OddPart(y.m, y.e), LAMBDA d :
             RoundRatio((x.s + y.s) % 2, x.m, d.m, x.e - d.e))

\* x / y for y # 0
FDiv(x, y) == Let2(x, y, Divide)

\* n * 2^e rounded to the nearest integer, ties to even, for e < 0
RoundToInt(n, e) ==
    Let(BShr(n, -e), LAMBDA q :
    Let(BShl(q, -e), LAMBDA floor :
    Let(BSub(n, floor), LAMBDA rem :
    Let(BShl(<<1>>, -e - 1), LAMBDA half :
    IF RoundUp(q, BCmp(rem, half)) THEN BToNat(q) + 1 ELSE BToNat(q)))))

\* round(x, 2): x * 100 rounded to the nearest integer, ties to even, decided
\* on the exact binary value of x.  Python returns the float nearest to that
\* many hundredths; the model keeps the count of hundredths, which names it.
Hundredths(x) ==
    IF IsZero(x) THEN 0
    ELSE Let(BMulSmall(x.m, 100, 0), LAMBDA n :
         Let(IF x.e >= 0 THEN Let(BShl(n, x.e), BToNat) ELSE RoundToInt(n, x.e), LAMBDA h :
         IF x.s = 1 THEN -h ELSE h))

Round2(x) == Let(x, Hundredths)

\* float("n.d") for a decimal written with one digit after the point: tenths
FromTenths(t) ==
    Let(BFromNat(Abs(t)), LAMBDA n : RoundRatio(SignOf(t), n, <<10>>, 0))

-----------------------------------------------------------------------------
(* predict                                                                 *)

\* str.lower() on the surface words of the model
Lower(w) == IF w \in {"clay", "Clay", "CLAY"} THEN "clay" ELSE w

\* zip(xs, ys): pairs up to the shorter of the two
Zip(xs, ys) == [i \in 1..Min2(Len(xs), Len(ys)) |-> <<xs[i], ys[i]>>]

\* a faulty TotalPerSet: every set added to B's first set
TotalPerSetFirstB(data) ==
    [i \in 1..Len(Zip(data.player_a_sets, data.player_b_sets)) |->
        data.player_a_sets[i] + data.player_b_sets[1]]

\* [a+b for a,b in zip(...)]
TotalPerSet(data) ==
    [i \in 1..Len(Zip(data.player_a_sets, data.player_b_sets)) |->
        data.player_a_sets[i] + data.player_b_sets[i]]

\* sum() of ints, from the i-th on
RECURSIVE SumInts(_, _)
SumInts(xs, i) == IF i > Len(xs) THEN 0 ELSE xs[i] + SumInts(xs, i + 1)

\* sum() of floats: left to right from 0
RECURSIVE SumFrom(_, _, _)
SumFrom(xs, i, acc) ==
    IF i > Len(xs) THEN acc ELSE SumFrom(xs, i + 1, FAdd(acc, xs[i]))

Sum(xs) == SumFrom(xs, 1, FZero)

\* sum(total_per_set)/len(total_per_set), for a list that is not empty
AvgTotal(total_per_set) == IntTrueDiv(SumInts(total_per_set, 1), Len(total_per_set))

\* adjustment = 0.3
adjustment == FromTenths(3)

\* a faulty SetWinPct: a set without games counts for nothing
SetWinPctNoDefault(a, b) ==
    IF a + b > 0 THEN FMul(IntTrueDiv(a, a + b), FromInt(100)) ELSE FZero

\* a/(a+b)*100 if (a+b)>0 else 50
SetWinPct(a, b) ==
    IF a + b > 0 THEN FMul(IntTrueDiv(a, a + b), FromInt(100)) ELSE FromInt(50)

\* [... for a,b in zip(data['player_a_sets'], data['player_b_sets'])]
PlayerAWinPct(data) ==
    [i \in 1..Len(Zip(data.player_a_sets, data.player_b_sets)) |->
        SetWinPct(data.player_a_sets[i], data.player_b_sets[i])]

\* [100 - pct for pct in player_a_win_pct]
PlayerBWinPct(player_a_win_pct) ==
    [i \in 1..Len(player_a_win_pct) |-> FSub(FromInt(100), player_a_win_pct[i])]

\* total_pct_a / (total_pct_a + total_pct_b) * 100
Normalize(total_pct_a, denominator) ==
    FMul(FDiv(total_pct_a, denominator), FromInt(100))

\* a faulty OverUnder: >= for >
OverUnderInclusive(adjusted_total, over_under) ==
    IF FCmp(adjusted_total, over_under) >= 0 THEN "Over" ELSE "Under"

\* "Over" if adjusted_total > data['over_under'] else "Under"
OverUnder(adjusted_total, over_under) ==
    IF FCmp(adjusted_total, over_under) > 0 THEN "Over" ELSE "Under"

IsClay(data) == Lower(data.surface) = "clay"

ZeroDivisionError == [tag |-> "raise", error |-> "ZeroDivisionError"]

\* a list with every item computed
List(xs) == [i \in 1..Len(xs) |-> Let(xs[i], LAMBDA item : item)]

\* lines 55-68: the local variables of predict before it normalises, for
\* data with at least one zipped set; denominator is total_pct_a + total_pct_b
Totals(data) ==
    Let(List(TotalPerSet(data)), LAMBDA total_per_set :
    Let(FAdd(AvgTotal(total_per_set), adjustment), LAMBDA adjusted_total :
    Let(List(PlayerAWinPct(data)), LAMBDA player_a_win_pct :
    Let(List(PlayerBWinPct(player_a_win_pct)), LAMBDA player_b_win_pct :
    Let2(Sum(player_a_win_pct), Sum(player_b_win_pct), LAMBDA total_pct_a, total_pct_b :
        [total_per_set    |-> total_per_set,
         adjusted_total   |-> adjusted_total,
         player_a_win_pct |-> player_a_win_pct,
         player_b_win_pct |-> player_b_win_pct,
         total_pct_a      |-> total_pct_a,
         denominator      |-> FAdd(total_pct_a, total_pct_b)])))))

\* lines 69-78, from the totals t; normalized_a and normalized_b are
\* player_a_norm and player_b_norm before the clay adjustment
Adjusted(data, t) ==
    Let(Normalize(t.total_pct_a, t.denominator), LAMBDA normalized_a :
    Let(FSub(FromInt(100), normalized_a), LAMBDA normalized_b :
        [tag                   |-> "locals",
         total_per_set         |-> t.total_per_set,
         adjusted_total        |-> t.adjusted_total,
         player_a_win_pct      |-> t.player_a_win_pct,
         player_b_win_pct      |-> t.player_b_win_pct,
         denominator           |-> t.denominator,
         normalized_a          |-> normalized_a,
         normalized_b          |-> normalized_b,
         over_under_prediction |-> OverUnder(t.adjusted_total, data.over_under),
         player_a_norm         |-> IF IsClay(data)
                                   THEN FAdd(normalized_a, FromInt(1))
                                   ELSE normalized_a,
         player_b_norm         |-> IF IsClay(data)
                                   THEN FSub(normalized_b, FromInt(1))
                                   ELSE normalized_b]))

\* the local variables of predict when it reaches its return statement, or
\* the exception it raises before: the division by len(total_per_set) when
\* zip yields nothing (line 56), or by total_pct_a + total_pct_b when that
\* is zero (line 69)
Locals(data) ==
    IF Len(TotalPerSet(data)) = 0 THEN ZeroDivisionError
    ELSE Let(Totals(data), LAMBDA t :
             IF IsZero(t.denominator) THEN ZeroDivisionError ELSE Adjusted(data, t))

\* the dict predict returns; the three rounded fields are in hundredths
ResultDict(l) ==
    [tag                   |-> "result",
     total_per_set         |-> l.total_per_set,
     adjusted_total_games  |-> Round2(l.adjusted_total),
     player_a_win_pct      |-> Round2(l.player_a_norm),
     player_b_win_pct      |-> Round2(l.player_b_norm),
     over_under_prediction |-> l.over_under_prediction]

\* predict(data): the dict it returns, or the exception it raises
predict(data) ==
    Let(Locals(data), LAMBDA l : IF l.tag = "raise" THEN l ELSE ResultDict(l))

-----------------------------------------------------------------------------
(* validate_input.  It looks only at which keys a dict has and at the      *)
(* Python types of the values, so a dict is modelled by its shape: a       *)
(* function from the keys present to [type, elems], where elems lists the  *)
(* types of the items met when the value is iterated.                      *)

required_keys ==
    <<"player_a", "player_b", "player_a_sets", "player_b_sets", "over_under", "surface">>

\* isinstance(x, (int, float)); bool is a subclass of int
IsNumber(type) == type \in {"int", "float", "bool"}

\* whether "for x in value" works; otherwise it raises TypeError
Iterable(v) == v.type \in {"list", "str"}

AllNumbers(v) == \A i \in 1..Len(v.elems) : IsNumber(v.elems[i])

\* a faulty FirstMissing: the loop keeps going and reports the last absent key
LastMissing(shape, i) ==
    IF \A j \in i..Len(required_keys) : required_keys[j] \in DOMAIN shape THEN ""
    ELSE required_keys[CHOOSE j \in i..Len(required_keys) :
            /\ required_keys[j] \notin DOMAIN shape
            /\ \A k \in (j + 1)..Len(required_keys) : required_keys[k] \in DOMAIN shape]

\* the first required key, from position i on, that the dict lacks; "" if none
RECURSIVE FirstMissing(_, _)
FirstMissing(shape, i) ==
    IF i > Len(required_keys) THEN ""
    ELSE IF required_keys[i] \notin DOMAIN shape THEN required_keys[i]
    ELSE FirstMissing(shape, i + 1)

\* validate_input(data) as [ok, kind, field]: kind and field stand for the
\* message ("Missing field: <field>", "<field> must be numbers", str(e))
validate_input(shape) ==
    LET missing == FirstMissing(shape, 1)
    IN  IF missing # ""
        THEN [ok |-> FALSE, kind |-> "Missing field", field |-> missing]
        ELSE IF ~Iterable(shape["player_a_sets"])
        THEN [ok |-> FALSE, kind |-> "TypeError", field |-> "player_a_sets"]
        ELSE IF ~AllNumbers(shape["player_a_sets"])
        THEN [ok |-> FALSE, kind |-> "must be numbers", field |-> "player_a_sets"]
        ELSE IF ~Iterable(shape["player_b_sets"])
        THEN [ok |-> FALSE, kind |-> "TypeError", field |-> "player_b_sets"]
        ELSE IF ~AllNumbers(shape["player_b_sets"])
        THEN [ok |-> FALSE, kind |-> "must be numbers", field |-> "player_b_sets"]
        ELSE IF ~IsNumber(shape["over_under"].type)
        THEN [ok |-> FALSE, kind |-> "must be a number", field |-> "over_under"]
        ELSE [ok |-> TRUE, kind |-> "Valid data", field |-> ""]

Scalar(type) == [type |-> type, elems |-> <<>>]

\* the shape of the dict handle_message builds: every key, lists of int, a float
ShapeOf(data) ==
    [k \in {required_keys[i] : i \in 1..Len(required_keys)} |->
        CASE k = "player_a_sets" ->
                [type |-> "list", elems |-> [i \in 1..Len(data.player_a_sets) |-> "int"]]
          [] k = "player_b_sets" ->
                [type |-> "list", elems |-> [i \in 1..Len(data.player_b_sets) |-> "int"]]
          [] k = "over_under" -> Scalar("float")
          [] OTHER -> Scalar("str")]

-----------------------------------------------------------------------------
(* handle_message.  A text is the list text.split(',') gives: its fields,  *)
(* each the list of tokens field.strip().split() gives.  A token is        *)
(* [k, n, w]: an integer literal n, a decimal literal of n tenths, or a    *)
(* word w that neither int() nor float() accepts.  The name and surface    *)
(* fields of the model's texts hold at most one word.                      *)

Int_(n) == [k |-> "int", n |-> n, w |-> ""]

Dec(tenths) == [k |-> "dec", n |-> tenths, w |-> ""]

Word(w) == [k |-> "word", n |-> 0, w |-> w]

IndexError == [tag |-> "raise", error |-> "IndexError"]

ValueError == [tag |-> "raise", error |-> "ValueError"]

Value(v) == [tag |-> "value", v |-> v]

\* parts[i].strip() for a name or the surface
Strip(field) == IF field = <<>> THEN "" ELSE field[1].w

\* [int(x) for x in parts[i].strip().split()]
ParseInts(field) ==
    IF \E i \in 1..Len(field) : field[i].k # "int" THEN ValueError
    ELSE Value([i \in 1..Len(field) |-> field[i].n])

\* float(parts[4].strip())
ParseFloat(field) ==
    IF Len(field) # 1 \/ field[1].k = "word" THEN ValueError
    ELSE IF field[1].k = "int" THEN Value(FromInt(field[1].n))
    ELSE Value(FromTenths(field[1].n))

\* the dict display of handle_message, evaluated key by key: the dict, or
\* the first exception met
ParseText(parts) ==
    IF Len(parts) < 3 THEN IndexError
    ELSE IF ParseInts(parts[3]).tag = "raise" THEN ValueError
    ELSE IF Len(parts) < 4 THEN IndexError
    ELSE IF ParseInts(parts[4]).tag = "raise" THEN ValueError
    ELSE IF Len(parts) < 5 THEN IndexError
    ELSE IF ParseFloat(parts[5]).tag = "raise" THEN ValueError
    ELSE IF Len(parts) < 6 THEN IndexError
    ELSE Value([player_a      |-> Strip(parts[1]),
                player_b      |-> Strip(parts[2]),
                player_a_sets |-> List(ParseInts(parts[3]).v),
                player_b_sets |-> List(ParseInts(parts[4]).v),
                over_under    |-> ParseFloat(parts[5]).v,
                surface       |-> Strip(parts[6])])

None == [tag |-> "none"]

\* last_prediction = {}
EmptyDict == [tag |-> "empty"]

Reply(kind, body) == [kind |-> kind, body |-> body]

\* the try block of handle_message on one text: whether it assigns
\* last_prediction, the value assigned, and the reply it sends; the
\* "Prediction Result" reply is built from last_prediction after the
\* assignment
handle_message(text) ==
    Let(ParseText(text), LAMBDA parsed :
        IF parsed.tag = "raise"
        THEN [store |-> FALSE, value |-> None,
              reply |-> Reply("Error processing data", parsed)]
        ELSE Let(validate_input(ShapeOf(parsed.v)), LAMBDA valid :
             IF ~valid.ok
             THEN [store |-> FALSE, value |-> None, reply |-> Reply("Invalid data", valid)]
             ELSE Let(predict(parsed.v), LAMBDA r :
                  IF r.tag = "raise"
                  THEN [store |-> FALSE, value |-> None,
                        reply |-> Reply("Error processing data", r)]
                  ELSE [store |-> TRUE, value |-> r,
                        reply |-> Reply("Prediction Result", None)])))

\* result_command: "if last_prediction:" is true of a dict with a key
result_command(slot) ==
    IF slot.tag # "empty" THEN Reply("Last Prediction", slot)
    ELSE Reply("No predictions yet", None)

-----------------------------------------------------------------------------
(* The inputs of the model.                                                *)

\* the longest match drawn for predict, in sets
MaxSets == 2

\* the most text messages one run of the bot handles
MaxLog == 2

\* the handler invocations the transport may have in progress at once
Handlers == 2

\* games won by A and by B in one set
Scores == {<<0, 0>>, <<6, 4>>, <<1, 6>>, <<3, 6>>, <<1, 4>>, <<7, 9>>}

\* matches as <<player_a_sets, player_b_sets>>: every sequence of Scores up
\* to MaxSets sets, a five-set match, and lists that are empty or differ in length
Paired ==
    UNION {{<<[i \in 1..n |-> m[i][1]], [i \in 1..n |-> m[i][2]]>> :
                m \in [1..n -> Scores]} : n \in 1..MaxSets}

BestOfFive == {<<<<6, 6, 7, 6, 7>>, <<4, 7, 5, 4, 5>>>>}

\* the match of predict_command's example
Documented == {<<<<6, 6>>, <<4, 7>>>>}

Ragged == {<<<<>>, <<>>>>, <<<<6>>, <<>>>>, <<<<6, 6>>, <<4>>>>, <<<<6>>, <<4, 7>>>>}

Matches == Paired \cup BestOfFive \cup Documented \cup Ragged

\* over_under as typed, in tenths
Lines == {118, 225}

Surfaces == {"hard", "clay", "Clay"}

MkData(m, tenths, surface) ==
    [player_a      |-> "Nadal",
     player_b      |-> "Federer",
     player_a_sets |-> m[1],
     player_b_sets |-> m[2],
     over_under    |-> FromTenths(tenths),
     surface       |-> surface]

\* shapes of dicts given to validate_input
ListOf(types) == [type |-> "list", elems |-> types]

SetsShapes ==
    {ListOf(<<"int", "int">>), ListOf(<<"int", "str">>), ListOf(<<"bool", "float">>),
     ListOf(<<>>), Scalar("int"), [type |-> "str", elems |-> <<"str", "str">>]}

OverUnderShapes == {Scalar("float"), Scalar("int"), Scalar("str"), Scalar("NoneType")}

KeySet == {required_keys[i] : i \in 1..Len(required_keys)}

ShapeWith(keys, a, b, o) ==
    [k \in keys |->
        CASE k = "player_a_sets" -> a
          [] k = "player_b_sets" -> b
          [] k = "over_under" -> o
          [] OTHER -> Scalar("str")]

Shapes ==
    {ShapeWith(keys, a, b, o) :
        keys \in SUBSET KeySet, a \in SetsShapes, b \in SetsShapes, o \in OverUnderShapes}

\* texts sent to the bot
Ints(ns) == [i \in 1..Len(ns) |-> Int_(ns[i])]

Text(a, b, o, surface) ==
    <<<<Word("Nadal")>>, <<Word("Federer")>>, a, b, <<o>>, <<Word(surface)>>>>

Example == Text(Ints(<<6, 6>>), Ints(<<4, 7>>), Dec(225), "hard")

Texts ==
    {Example,
     Text(Ints(<<1, 7>>), Ints(<<4, 9>>), Int_(22), "CLAY"),
     Text(Ints(<<6, 6>>), Ints(<<4>>), Dec(225), "hard"),
     Text(Ints(<<>>), Ints(<<>>), Dec(225), "hard"),
     Text(<<Int_(6), Word("x")>>, Ints(<<4, 7>>), Dec(225), "hard"),
     Text(<<Dec(65), Int_(6)>>, Ints(<<4, 7>>), Dec(225), "hard"),
     Text(Ints(<<6, 6>>), Ints(<<4, 7>>), Word("abc"), "hard"),
     SubSeq(Example, 1, 5),
     Text(Ints(<<6, 3>>), Ints(<<4, 6>>), Dec(118), "hard") \o <<<<Word("extra")>>>>}

\* texts delivered while another handler is in progress
ConcurrentTexts ==
    {Example,
     Text(Ints(<<1, 7>>), Ints(<<4, 9>>), Int_(22), "CLAY"),
     Text(Ints(<<>>), Ints(<<>>), Dec(225), "hard"),
     <<<<Word("hello")>>>>}

-----------------------------------------------------------------------------
(* State.                                                                  *)

VARIABLES
    shape,            \* the dict given to validate_input, by its shape
    verdict,          \* what validate_input returned for it
    data,             \* the dict given to predict
    line,             \* its over_under as typed, in tenths
    result,           \* what predict returned or raised for data
    locals,           \* predict's local variables at its return, or what it raised
    prior,            \* the run of predict on the same sets before the surface changed
    last_prediction,  \* the module-wide slot
    reply,            \* the last reply_text of the sequential bot
    log,              \* the texts handle_message has handled, oldest first
    handler           \* the handler invocations in progress, when they may overlap

vars ==
    <<shape, verdict, data, line, result, locals, prior, last_prediction, reply, log, handler>>

validatorVars == <<shape, verdict>>

predictVars == <<data, line, result, locals, prior>>

botVars == <<last_prediction, reply, log, handler>>

Idle == [pc |-> "idle", own |-> None, sent |-> None]

-----------------------------------------------------------------------------
(* validate_input applied to a dict.                                       *)

InitValidate ==
    /\ shape \in Shapes
    /\ verdict = None
    /\ data = None /\ line = 0 /\ result = None /\ locals = None /\ prior = None
    /\ last_prediction = EmptyDict /\ reply = None /\ log = <<>>
    /\ handler = [h \in 1..Handlers |-> Idle]

Validate ==
    /\ verdict = None
    /\ verdict' = validate_input(shape)
    /\ UNCHANGED <<shape, predictVars, botVars>>

SpecValidate == InitValidate /\ [][Validate]_vars

-----------------------------------------------------------------------------
(* predict applied to a dict, then to the same dict on another surface.    *)

InitPredict ==
    /\ \E m \in Matches, tenths \in Lines, surface \in Surfaces :
            data = MkData(m, tenths, surface) /\ line = tenths
    /\ result = None /\ locals = None /\ prior = None
    /\ shape = <<>> /\ verdict = None
    /\ last_prediction = EmptyDict /\ reply = None /\ log = <<>>
    /\ handler = [h \in 1..Handlers |-> Idle]

Predict ==
    /\ result = None
    /\ result' = predict(data)
    /\ locals' = Locals(data)
    /\ UNCHANGED <<data, line, prior, validatorVars, botVars>>

Resurface(surface) ==
    /\ result # None
    /\ prior = None
    /\ surface # data.surface
    /\ prior' = [surface |-> data.surface, result |-> result]
    /\ data' = [data EXCEPT !.surface = surface]
    /\ result' = None
    /\ locals' = None
    /\ UNCHANGED <<line, validatorVars, botVars>>

NextPredict == Predict \/ \E surface \in Surfaces : Resurface(surface)

SpecPredict == InitPredict /\ [][NextPredict]_vars

-----------------------------------------------------------------------------
(* The bot, one update at a time: the dispatcher runs each handler to its  *)
(* end before it takes the next update.                                    *)

Init ==
    /\ last_prediction = EmptyDict
    /\ reply = None
    /\ log = <<>>
    /\ handler = [h \in 1..Handlers |-> Idle]
    /\ shape = <<>> /\ verdict = None
    /\ data = None /\ line = 0 /\ result = None /\ locals = None /\ prior = None

\* a faulty Assign: without the global statement the assignment makes a local
AssignLocal(slot, value) == slot

\* "global last_prediction" and the assignment "last_prediction =
\* predict(data)": the module-wide slot afterwards
Assign(slot, value) == value

\* handle_message(update, context)
HandleMessage(text) ==
    /\ Len(log) < MaxLog
    /\ \E h \in {handle_message(text)} :
            /\ last_prediction' =
                    IF h.store THEN Assign(last_prediction, h.value) ELSE last_prediction
            /\ reply' = IF h.store
                        THEN Reply("Prediction Result", last_prediction')
                        ELSE h.reply
    /\ log' = Append(log, text)
    /\ UNCHANGED <<handler, validatorVars, predictVars>>

\* result_command(update, context)
ResultCommand ==
    /\ reply' = result_command(last_prediction)
    /\ UNCHANGED <<last_prediction, log, handler, validatorVars, predictVars>>

\* start, help_command, predict_command: a fixed text each
Show(message) ==
    /\ reply' = Reply(message, None)
    /\ UNCHANGED <<last_prediction, log, handler, validatorVars, predictVars>>

Next ==
    \/ \E text \in Texts : HandleMessage(text)
    \/ ResultCommand
    \/ \E message \in {"WELCOME_MESSAGE", "HELP_MESSAGE", "Send match data as CSV format"} :
            Show(message)

Spec == Init /\ [][Next]_vars

-----------------------------------------------------------------------------
(* The bot with handler invocations that overlap: each runs lines 113-130  *)
(* (to the assignment of last_prediction), then line 131 (the reply built  *)
(* from last_prediction), and another invocation may run in between.       *)

\* lines 113-130 of one invocation; a failure replies at once
Begin(h, text) ==
    /\ handler[h].pc = "idle"
    /\ \E o \in {handle_message(text)} :
           IF o.store
           THEN /\ last_prediction' = Assign(last_prediction, o.value)
                /\ handler' = [handler EXCEPT ![h] =
                     [pc |-> "assigned", own |-> o.value, sent |-> None]]
           ELSE /\ handler' = [handler EXCEPT ![h] =
                     [pc |-> "done", own |-> None, sent |-> o.reply]]
                /\ UNCHANGED last_prediction
    /\ UNCHANGED <<reply, log, validatorVars, predictVars>>

\* line 131 of one invocation
SendReply(h) ==
    /\ handler[h].pc = "assigned"
    /\ handler' = [handler EXCEPT ![h].pc = "done",
                                  ![h].sent = Reply("Prediction Result", last_prediction)]
    /\ UNCHANGED <<last_prediction, reply, log, validatorVars, predictVars>>

\* the invocation returns
Return(h) ==
    /\ handler[h].pc = "done"
    /\ handler' = [handler EXCEPT ![h] = Idle]
    /\ UNCHANGED <<last_prediction, reply, log, validatorVars, predictVars>>

NextConcurrent ==
    \E h \in 1..Handlers :
        \/ \E text \in ConcurrentTexts : Begin(h, text)
        \/ SendReply(h)
        \/ Return(h)

InitConcurrent ==
    /\ last_prediction = EmptyDict
    /\ handler = [h \in 1..Handlers |-> Idle]
    /\ reply = None /\ log = <<>>
    /\ shape = <<>> /\ verdict = None
    /\ data = None /\ line = 0 /\ result = None /\ locals = None /\ prior = None

SpecConcurrent == InitConcurrent /\ [][NextConcurrent]_vars

-----------------------------------------------------------------------------
(* Properties of validate_input, checked under SpecValidate.               *)

Present(key) == key \in DOMAIN shape

AbsentKeys == {i \in 1..Len(required_keys) : ~Present(required_keys[i])}

\* for x in value succeeds and meets an item that is not an int or a float
HasNonNumber(v) ==
    v.type \in {"list", "str"} /\ \E i \in 1..Len(v.elems) : v.elems[i] \notin {"int", "float", "bool"}

\* for x in value succeeds and every item is an int or a float
OnlyNumbers(v) ==
    v.type \in {"list", "str"} /\ \A i \in 1..Len(v.elems) : v.elems[i] \in {"int", "float", "bool"}

NumberShape(v) == v.type \in {"int", "float", "bool"}

Rejects(kind, field) == verdict = [ok |-> FALSE, kind |-> kind, field |-> field]

\* C1: validate_input checks in a fixed order and stops at the first failure.
\* An absent key is reported, the first in the order of required_keys, whatever
\* the types of the values; with every key present a non-number in
\* player_a_sets is reported before one in player_b_sets, and that before an
\* over_under that is not a number; (True, ...) is returned exactly when the
\* keys are present, both lists hold only numbers and over_under is a number.
C1_FixedOrder ==
    verdict # None =>
        /\ AbsentKeys # {} =>
              \E i \in AbsentKeys :
                  /\ \A j \in AbsentKeys : i <= j
                  /\ Rejects("Missing field", required_keys[i])
        /\ (AbsentKeys = {} /\ HasNonNumber(shape["player_a_sets"])) =>
              Rejects("must be numbers", "player_a_sets")
        /\ (AbsentKeys = {} /\ OnlyNumbers(shape["player_a_sets"])
                /\ HasNonNumber(shape["player_b_sets"])) =>
              Rejects("must be numbers", "player_b_sets")
        /\ (AbsentKeys = {} /\ OnlyNumbers(shape["player_a_sets"])
                /\ OnlyNumbers(shape["player_b_sets"])
                /\ ~NumberShape(shape["over_under"])) =>
              Rejects("must be a number", "over_under")
        /\ verdict.ok <=>
              /\ AbsentKeys = {}
              /\ OnlyNumbers(shape["player_a_sets"])
              /\ OnlyNumbers(shape["player_b_sets"])
              /\ NumberShape(shape["over_under"])

\* validate_input has returned for a dict that lacks two keys and whose
\* player_a_sets, player_b_sets and over_under are all of the wrong type
C1_Witness ==
    /\ verdict # None
    /\ Cardinality(AbsentKeys) = 2
    /\ ~Present("surface")
    /\ Present("player_a_sets") /\ HasNonNumber(shape["player_a_sets"])
    /\ Present("player_b_sets") /\ HasNonNumber(shape["player_b_sets"])
    /\ Present("over_under") /\ ~NumberShape(shape["over_under"])

-----------------------------------------------------------------------------
(* Properties of predict, checked under SpecPredict.                       *)

Returned == result # None /\ result.tag = "result"

Raised == result # None /\ result.tag = "raise"

Sets == Len(data.player_a_sets)

EqualLength == Len(data.player_a_sets) = Len(data.player_b_sets)

\* C7: for sequences of equal length, total_per_set has the length of
\* player_a_sets and its i-th item is player_a_sets[i] + player_b_sets[i].
C7_TotalPerSet ==
    (Returned /\ EqualLength) =>
        /\ Len(result.total_per_set) = Sets
        /\ \A i \in 1..Sets :
              result.total_per_set[i] = data.player_a_sets[i] + data.player_b_sets[i]

\* predict has returned for two sets with different totals
C7_Witness ==
    /\ Returned /\ EqualLength /\ Sets = 2
    /\ result.total_per_set[1] # result.total_per_set[2]
    /\ data.player_b_sets[1] # data.player_b_sets[2]

\* C5: over_under_prediction is "Over" exactly when the adjusted total
\* before rounding, the mean of total_per_set plus 0.3, is strictly greater
\* than over_under, and "Under" when it is equal or below; the documented
\* example (6 6 / 4 7 against 22.5) gives 11.8 and "Under".
C5_StrictlyOver ==
    Returned =>
        /\ locals.adjusted_total =
              FAdd(IntTrueDiv(SumInts(result.total_per_set, 1), Len(result.total_per_set)),
                   FromTenths(3))
        /\ result.over_under_prediction \in {"Over", "Under"}
        /\ result.over_under_prediction = "Over" <=>
              Compare(locals.adjusted_total, data.over_under) > 0
        /\ Compare(locals.adjusted_total, data.over_under) <= 0 =>
              result.over_under_prediction = "Under"
        /\ (<<data.player_a_sets, data.player_b_sets>> \in Documented /\ line = 225) =>
              /\ result.adjusted_total_games = 1180
              /\ result.over_under_prediction = "Under"

\* predict has returned for an adjusted total equal to the line
C5_Witness ==
    /\ Returned
    /\ Compare(locals.adjusted_total, data.over_under) = 0
    /\ result.over_under_prediction = "Under"

NonNegative ==
    /\ \A i \in 1..Len(data.player_a_sets) : data.player_a_sets[i] >= 0
    /\ \A i \in 1..Len(data.player_b_sets) : data.player_b_sets[i] >= 0

NoGames(i) == data.player_a_sets[i] + data.player_b_sets[i] = 0

\* what C9 says of a set without games and of a match without games
TieBreakDefault ==
    /\ \A i \in 1..Sets :
          NoGames(i) => /\ locals.player_a_win_pct[i] = FromInt(50)
                        /\ locals.player_b_win_pct[i] = FromInt(50)
    /\ (\A i \in 1..Sets : NoGames(i)) =>
          /\ locals.normalized_a = FromInt(50)
          /\ locals.normalized_b = FromInt(50)

C4_SumIsHundred ==
    (Returned /\ EqualLength /\ Sets >= 1) =>
        IF IsClay(data)
        THEN /\ result.player_a_win_pct + result.player_b_win_pct >= 98 * 100
             /\ result.player_a_win_pct + result.player_b_win_pct <= 102 * 100
        ELSE result.player_a_win_pct + result.player_b_win_pct = 100 * 100

\* the run on clay and the run on another surface, when the two runs of
\* predict on the same sets and line are one of each
OnClay == IF IsClay(data) THEN result ELSE prior.result

OffClay == IF IsClay(data) THEN prior.result ELSE result

\* C6: of two records that differ only in surface, one clay in any letter
\* case and one not, the clay run has player_a_win_pct one point higher and
\* player_b_win_pct one point lower after rounding, and the same
\* total_per_set, adjusted_total_games and over_under_prediction.
C6_ClayShift ==
    (prior # None /\ Returned /\ prior.result.tag = "result"
        /\ (Lower(prior.surface) = "clay") # IsClay(data)) =>
        /\ OnClay.player_a_win_pct = OffClay.player_a_win_pct + 100
        /\ OnClay.player_b_win_pct = OffClay.player_b_win_pct - 100
        /\ OnClay.total_per_set = OffClay.total_per_set
        /\ OnClay.adjusted_total_games = OffClay.adjusted_total_games
        /\ OnClay.over_under_prediction = OffClay.over_under_prediction

\* C8: for a record validate_input accepts whose player_a_sets and
\* player_b_sets are empty or differ in length, predict raises and returns
\* no result.
C8_NoPartialResult ==
    (result # None /\ validate_input(ShapeOf(data)).ok /\ (Sets = 0 \/ ~EqualLength)) =>
        Raised

-----------------------------------------------------------------------------
(* Properties of the bot, checked under Spec.                              *)

\* the positions in log of the messages for which predict returned a result
Producing == {i \in 1..Len(log) : handle_message(log[i]).store}

\* C2: after any sequence of text messages and /Result commands the slot
\* holds the result of the most recent message for which predict returned
\* one (a message that fails leaves it alone, and so does /Result), and
\* /Result replies "No predictions yet" exactly when no message has produced
\* a prediction so far, and with the slot otherwise.
C2_LastPrediction ==
    \E producing \in {Producing} :
        /\ IF producing = {} THEN last_prediction = EmptyDict
           ELSE \E i \in producing :
                   /\ \A j \in producing : j <= i
                   /\ last_prediction = predict(ParseText(log[i]).v)
        /\ (reply # None /\ reply.kind = "No predictions yet") => producing = {}
        /\ (reply # None /\ reply.kind = "Last Prediction") =>
              producing # {} /\ reply.body = last_prediction

\* /Result has replied with the prediction of the first of two messages,
\* the second having failed
C2_Witness ==
    /\ Len(log) = 2
    /\ Producing = {1}
    /\ reply # None /\ reply.kind = "Last Prediction"
    /\ reply.body = predict(ParseText(log[1]).v)

NotInt(field) == \E i \in 1..Len(field) : field[i].k # "int"

NotNumber(field) == Len(field) # 1 \/ field[1].k = "word"

\* a text that does not have exactly six fields, or has a token that is not
\* a number where a number is expected
Malformed(text) ==
    \/ Len(text) # 6
    \/ NotInt(text[3])
    \/ NotInt(text[4])
    \/ NotNumber(text[5])

\* C3: every malformed message gets an error reply, produces no prediction
\* and leaves the slot as it was.
C3_ParseError ==
    [][(log' # log /\ Malformed(log'[Len(log')])) =>
            /\ reply'.kind = "Error processing data"
            /\ last_prediction' = last_prediction]_vars

-----------------------------------------------------------------------------
(* Property of overlapping handlers, checked under SpecConcurrent.         *)

=============================================================================
